---- MODULE Spec2Model ----
(***************************************************************************)
(* Logical data types of src/datatypes/mod.rs: the DataType catalog, its   *)
(* exact equality (PartialEq), the structural comparison equals_datatype,  *)
(* the physical classifier to_physical_type and the predicate              *)
(* is_phsical_type.  All four are pure functions; the state machine draws  *)
(* a pair of DataType values and applies the functions to it.              *)
(***************************************************************************)
EXTENDS Integers, Sequences, FiniteSets, TLC

VARIABLES self, other, call, ret

vars == <<self, other, call, ret>>

(***************************************************************************)
(* Bounds of the input domain.                                             *)
(***************************************************************************)
MaxSize == 2          \* byte widths / element counts range over 1..MaxSize
MaxPrecision == 2     \* decimal precisions range over 1..MaxPrecision
MaxScale == 1         \* decimal scales range over 0..MaxScale
MaxStructLen == 2     \* a Struct carries 0..MaxStructLen child fields
MaxChain == 2         \* Extension values wrap Extension values to this length
MaxDepth == 2         \* nesting depth of List/Struct spines

(***************************************************************************)
(* enum TimeUnit, enum IntervalUnit                                        *)
(***************************************************************************)
TimeUnit == {"Second", "Millisecond", "Microsecond", "Nanosecond"}

IntervalUnit == {"YearMonth", "DayTime"}

(***************************************************************************)
(* Option<T>: None is the empty sequence, Some(x) the one-element one.     *)
(***************************************************************************)
None == << >>

Some(x) == <<x>>

(***************************************************************************)
(* enum DataType.  A value is a record whose tag is the variant and whose  *)
(* other components are the variant's payload.                             *)
(***************************************************************************)
PayloadFree ==
    {"Null", "Boolean", "Int8", "Int16", "Int32", "Int64",
     "UInt8", "UInt16", "UInt32", "UInt64", "Float16", "Float32", "Float64",
     "Date32", "Date64", "Binary", "LargeBinary", "Utf8", "LargeUtf8"}

Plain(t) == [tag |-> t]

Timestamp(u, tz) == [tag |-> "Timestamp", unit |-> u, tz |-> tz]

Time32(u) == [tag |-> "Time32", unit |-> u]

Time64(u) == [tag |-> "Time64", unit |-> u]

Duration(u) == [tag |-> "Duration", unit |-> u]

Interval(u) == [tag |-> "Interval", unit |-> u]

FixedSizeBinary(n) == [tag |-> "FixedSizeBinary", size |-> n]

List(f) == [tag |-> "List", field |-> f]

FixedSizeList(f, n) == [tag |-> "FixedSizeList", field |-> f, size |-> n]

LargeList(f) == [tag |-> "LargeList", field |-> f]

Struct(fs) == [tag |-> "Struct", fields |-> fs]

Union(fs, ids, sparse) == [tag |-> "Union", fields |-> fs, ids |-> ids, sparse |-> sparse]

Dictionary(k, v) == [tag |-> "Dictionary", key |-> k, value |-> v]

Decimal(p, s) == [tag |-> "Decimal", precision |-> p, scale |-> s]

Extension(e) == [tag |-> "Extension", ext |-> e]

(***************************************************************************)
(* struct Field (datatypes/field.rs): name, data type, nullability and     *)
(* metadata, with the two accessors this module consumes.                  *)
(***************************************************************************)
Field(n, t, nl, md) == [name |-> n, data_type |-> t, nullable |-> nl, metadata |-> md]

is_nullable(f) == f.nullable

data_type(f) == f.data_type

(***************************************************************************)
(* An Extension object (datatypes/extension.rs): a concrete kind and the   *)
(* logical type it reports through data_type().                            *)
(***************************************************************************)
ExtensionObject(k, t) == [kind |-> k, data_type |-> t]

ext_data_type(e) == e.data_type

(***************************************************************************)
(* enum PhysicalDataType.                                                  *)
(***************************************************************************)
PhysicalPlain ==
    {"Null", "Boolean", "Int8", "Int16", "Int32", "Int64", "Int128",
     "UInt8", "UInt16", "UInt32", "UInt64", "Float16", "Float32", "Float64",
     "DaysMs", "Binary", "LargeBinary", "Utf8", "LargeUtf8"}

PhysicalNested ==
    {"FixedSizeBinary", "List", "FixedSizeList", "LargeList", "Struct", "Union",
     "Dictionary"}

Physical(t) == [enum |-> "PhysicalDataType", tag |-> t]

PhysicalFixedSizeBinary(n) == [enum |-> "PhysicalDataType", tag |-> "FixedSizeBinary", size |-> n]

PhysicalList(f) == [enum |-> "PhysicalDataType", tag |-> "List", field |-> f]

PhysicalFixedSizeList(f, n) ==
    [enum |-> "PhysicalDataType", tag |-> "FixedSizeList", field |-> f, size |-> n]

PhysicalLargeList(f) == [enum |-> "PhysicalDataType", tag |-> "LargeList", field |-> f]

PhysicalStruct(fs) == [enum |-> "PhysicalDataType", tag |-> "Struct", fields |-> fs]

PhysicalUnion(fs, ids, sparse) ==
    [enum |-> "PhysicalDataType", tag |-> "Union", fields |-> fs, ids |-> ids,
     sparse |-> sparse]

PhysicalDictionary(k, v) ==
    [enum |-> "PhysicalDataType", tag |-> "Dictionary", key |-> k, value |-> v]

(***************************************************************************)
(* Exact equality.  Field == compares name, data type, nullability and     *)
(* metadata; Arc<dyn Extension> == holds between objects of the same       *)
(* concrete kind with equal underlying types; DataType == is the match of  *)
(* impl PartialEq for DataType.                                            *)
(***************************************************************************)
RECURSIVE eq(_, _)

RECURSIVE FieldEq(_, _)

RECURSIVE equals_datatype(_, _)

RECURSIVE to_physical_type(_)

FieldEq(l, r) ==
    /\ l.name = r.name
    /\ eq(l.data_type, r.data_type)
    /\ l.nullable = r.nullable
    /\ l.metadata = r.metadata

\* Vec<Field> == Vec<Field>: same length and equal element by element.
VecFieldEq(l, r) ==
    /\ Len(l) = Len(r)
    /\ \A i \in 1..Len(l) : FieldEq(l[i], r[i])

ExtensionEq(l, r) ==
    /\ l.kind = r.kind
    /\ eq(l.data_type, r.data_type)

\* eq with the Timestamp arm comparing the unit and not the time zone.
eq_timestamp_unit_only(l, r) ==
    CASE l.tag = "Timestamp" /\ r.tag = "Timestamp" -> l.unit = r.unit
      [] l.tag = "Time32" /\ r.tag = "Time32" -> l.unit = r.unit
      [] l.tag = "Time64" /\ r.tag = "Time64" -> l.unit = r.unit
      [] l.tag = "Duration" /\ r.tag = "Duration" -> l.unit = r.unit
      [] l.tag = "Interval" /\ r.tag = "Interval" -> l.unit = r.unit
      [] l.tag = "FixedSizeBinary" /\ r.tag = "FixedSizeBinary" -> l.size = r.size
      [] l.tag = "List" /\ r.tag = "List" -> FieldEq(l.field, r.field)
      [] l.tag = "FixedSizeList" /\ r.tag = "FixedSizeList" ->
            FieldEq(l.field, r.field) /\ l.size = r.size
      [] l.tag = "LargeList" /\ r.tag = "LargeList" -> FieldEq(l.field, r.field)
      [] l.tag = "Struct" /\ r.tag = "Struct" -> VecFieldEq(l.fields, r.fields)
      [] l.tag = "Union" /\ r.tag = "Union" ->
            VecFieldEq(l.fields, r.fields) /\ l.ids = r.ids /\ l.sparse = r.sparse
      [] l.tag = "Dictionary" /\ r.tag = "Dictionary" ->
            eq(l.key, r.key) /\ eq(l.value, r.value)
      [] l.tag = "Decimal" /\ r.tag = "Decimal" ->
            l.precision = r.precision /\ l.scale = r.scale
      [] l.tag = "Extension" /\ r.tag = "Extension" -> ExtensionEq(l.ext, r.ext)
      [] OTHER -> l.tag = r.tag

\* eq as the source defines it.
eq(l, r) ==
    CASE l.tag = "Timestamp" /\ r.tag = "Timestamp" -> l.unit = r.unit /\ l.tz = r.tz
      [] l.tag = "Time32" /\ r.tag = "Time32" -> l.unit = r.unit
      [] l.tag = "Time64" /\ r.tag = "Time64" -> l.unit = r.unit
      [] l.tag = "Duration" /\ r.tag = "Duration" -> l.unit = r.unit
      [] l.tag = "Interval" /\ r.tag = "Interval" -> l.unit = r.unit
      [] l.tag = "FixedSizeBinary" /\ r.tag = "FixedSizeBinary" -> l.size = r.size
      [] l.tag = "List" /\ r.tag = "List" -> FieldEq(l.field, r.field)
      [] l.tag = "FixedSizeList" /\ r.tag = "FixedSizeList" ->
            FieldEq(l.field, r.field) /\ l.size = r.size
      [] l.tag = "LargeList" /\ r.tag = "LargeList" -> FieldEq(l.field, r.field)
      [] l.tag = "Struct" /\ r.tag = "Struct" -> VecFieldEq(l.fields, r.fields)
      [] l.tag = "Union" /\ r.tag = "Union" ->
            VecFieldEq(l.fields, r.fields) /\ l.ids = r.ids /\ l.sparse = r.sparse
      [] l.tag = "Dictionary" /\ r.tag = "Dictionary" ->
            eq(l.key, r.key) /\ eq(l.value, r.value)
      [] l.tag = "Decimal" /\ r.tag = "Decimal" ->
            l.precision = r.precision /\ l.scale = r.scale
      [] l.tag = "Extension" /\ r.tag = "Extension" -> ExtensionEq(l.ext, r.ext)
      [] OTHER -> l.tag = r.tag

(***************************************************************************)
(* a.iter().zip(b): the positions both sequences have.                     *)
(***************************************************************************)
Zip(a, b) == 1..(IF Len(a) <= Len(b) THEN Len(a) ELSE Len(b))

(***************************************************************************)
(* DataType::equals_datatype                                               *)
(***************************************************************************)
\* equals_datatype with the FixedSizeList arm not comparing the element counts.
equals_datatype_no_size(a, b) ==
    CASE (a.tag = "List" /\ b.tag = "List") \/ (a.tag = "LargeList" /\ b.tag = "LargeList") ->
            /\ is_nullable(a.field) = is_nullable(b.field)
            /\ equals_datatype(data_type(a.field), data_type(b.field))
      [] a.tag = "FixedSizeList" /\ b.tag = "FixedSizeList" ->
            /\ is_nullable(a.field) = is_nullable(b.field)
            /\ equals_datatype(data_type(a.field), data_type(b.field))
      [] a.tag = "Struct" /\ b.tag = "Struct" ->
            /\ Len(a.fields) = Len(b.fields)
            /\ \A i \in Zip(a.fields, b.fields) :
                  /\ is_nullable(a.fields[i]) = is_nullable(b.fields[i])
                  /\ equals_datatype(data_type(a.fields[i]), data_type(b.fields[i]))
      [] OTHER -> eq(a, b)

\* equals_datatype with the Struct arm zipping without comparing the lengths.
equals_datatype_no_len(a, b) ==
    CASE (a.tag = "List" /\ b.tag = "List") \/ (a.tag = "LargeList" /\ b.tag = "LargeList") ->
            /\ is_nullable(a.field) = is_nullable(b.field)
            /\ equals_datatype(data_type(a.field), data_type(b.field))
      [] a.tag = "FixedSizeList" /\ b.tag = "FixedSizeList" ->
            /\ a.size = b.size
            /\ is_nullable(a.field) = is_nullable(b.field)
            /\ equals_datatype(data_type(a.field), data_type(b.field))
      [] a.tag = "Struct" /\ b.tag = "Struct" ->
            /\ \A i \in Zip(a.fields, b.fields) :
                  /\ is_nullable(a.fields[i]) = is_nullable(b.fields[i])
                  /\ equals_datatype(data_type(a.fields[i]), data_type(b.fields[i]))
      [] OTHER -> eq(a, b)

\* equals_datatype with a fallback arm comparing the variants only.
equals_datatype_discriminant(a, b) ==
    CASE (a.tag = "List" /\ b.tag = "List") \/ (a.tag = "LargeList" /\ b.tag = "LargeList") ->
            /\ is_nullable(a.field) = is_nullable(b.field)
            /\ equals_datatype(data_type(a.field), data_type(b.field))
      [] a.tag = "FixedSizeList" /\ b.tag = "FixedSizeList" ->
            /\ a.size = b.size
            /\ is_nullable(a.field) = is_nullable(b.field)
            /\ equals_datatype(data_type(a.field), data_type(b.field))
      [] a.tag = "Struct" /\ b.tag = "Struct" ->
            /\ Len(a.fields) = Len(b.fields)
            /\ \A i \in Zip(a.fields, b.fields) :
                  /\ is_nullable(a.fields[i]) = is_nullable(b.fields[i])
                  /\ equals_datatype(data_type(a.fields[i]), data_type(b.fields[i]))
      [] OTHER -> a.tag = b.tag

\* equals_datatype with the Struct arm accepting a shorter left side.
equals_datatype_len_le(a, b) ==
    CASE (a.tag = "List" /\ b.tag = "List") \/ (a.tag = "LargeList" /\ b.tag = "LargeList") ->
            /\ is_nullable(a.field) = is_nullable(b.field)
            /\ equals_datatype(data_type(a.field), data_type(b.field))
      [] a.tag = "FixedSizeList" /\ b.tag = "FixedSizeList" ->
            /\ a.size = b.size
            /\ is_nullable(a.field) = is_nullable(b.field)
            /\ equals_datatype(data_type(a.field), data_type(b.field))
      [] a.tag = "Struct" /\ b.tag = "Struct" ->
            /\ Len(a.fields) <= Len(b.fields)
            /\ \A i \in Zip(a.fields, b.fields) :
                  /\ is_nullable(a.fields[i]) = is_nullable(b.fields[i])
                  /\ equals_datatype(data_type(a.fields[i]), data_type(b.fields[i]))
      [] OTHER -> eq(a, b)

\* equals_datatype with the List arm requiring different nullability.
equals_datatype_nullable_ne(a, b) ==
    CASE (a.tag = "List" /\ b.tag = "List") \/ (a.tag = "LargeList" /\ b.tag = "LargeList") ->
            /\ is_nullable(a.field) # is_nullable(b.field)
            /\ equals_datatype(data_type(a.field), data_type(b.field))
      [] a.tag = "FixedSizeList" /\ b.tag = "FixedSizeList" ->
            /\ a.size = b.size
            /\ is_nullable(a.field) = is_nullable(b.field)
            /\ equals_datatype(data_type(a.field), data_type(b.field))
      [] a.tag = "Struct" /\ b.tag = "Struct" ->
            /\ Len(a.fields) = Len(b.fields)
            /\ \A i \in Zip(a.fields, b.fields) :
                  /\ is_nullable(a.fields[i]) = is_nullable(b.fields[i])
                  /\ equals_datatype(data_type(a.fields[i]), data_type(b.fields[i]))
      [] OTHER -> eq(a, b)

\* equals_datatype as the source defines it.
equals_datatype(a, b) ==
    CASE (a.tag = "List" /\ b.tag = "List") \/ (a.tag = "LargeList" /\ b.tag = "LargeList") ->
            /\ is_nullable(a.field) = is_nullable(b.field)
            /\ equals_datatype(data_type(a.field), data_type(b.field))
      [] a.tag = "FixedSizeList" /\ b.tag = "FixedSizeList" ->
            /\ a.size = b.size
            /\ is_nullable(a.field) = is_nullable(b.field)
            /\ equals_datatype(data_type(a.field), data_type(b.field))
      [] a.tag = "Struct" /\ b.tag = "Struct" ->
            /\ Len(a.fields) = Len(b.fields)
            /\ \A i \in Zip(a.fields, b.fields) :
                  /\ is_nullable(a.fields[i]) = is_nullable(b.fields[i])
                  /\ equals_datatype(data_type(a.fields[i]), data_type(b.fields[i]))
      [] OTHER -> eq(a, b)

(***************************************************************************)
(* DataType::to_physical_type                                              *)
(***************************************************************************)
\* to_physical_type with Time32 in the 64-bit arm.
to_physical_type_time32_wide(d) ==
    CASE d.tag = "Null" -> Physical("Null")
      [] d.tag = "Boolean" -> Physical("Boolean")
      [] d.tag = "UInt8" -> Physical("UInt8")
      [] d.tag = "UInt16" -> Physical("UInt16")
      [] d.tag = "UInt32" -> Physical("UInt32")
      [] d.tag = "UInt64" -> Physical("UInt64")
      [] d.tag = "Int8" -> Physical("Int8")
      [] d.tag = "Int16" -> Physical("Int16")
      [] \/ d.tag = "Int32"
         \/ d.tag = "Date32"
         \/ (d.tag = "Interval" /\ d.unit = "YearMonth") -> Physical("Int32")
      [] \/ d.tag = "Int64"
         \/ d.tag = "Date64"
         \/ d.tag = "Time64"
         \/ d.tag = "Time32"
         \/ d.tag = "Timestamp"
         \/ d.tag = "Duration" -> Physical("Int64")
      [] d.tag = "Decimal" -> Physical("Int128")
      [] d.tag = "Interval" /\ d.unit = "DayTime" -> Physical("DaysMs")
      [] d.tag = "Float16" -> Physical("Float16")
      [] d.tag = "Float32" -> Physical("Float32")
      [] d.tag = "Float64" -> Physical("Float64")
      [] d.tag = "Utf8" -> Physical("Utf8")
      [] d.tag = "LargeUtf8" -> Physical("LargeUtf8")
      [] d.tag = "Binary" -> Physical("Binary")
      [] d.tag = "LargeBinary" -> Physical("LargeBinary")
      [] d.tag = "List" -> PhysicalList(d.field)
      [] d.tag = "LargeList" -> PhysicalLargeList(d.field)
      [] d.tag = "Struct" -> PhysicalStruct(d.fields)
      [] d.tag = "Dictionary" -> PhysicalDictionary(d.key, d.value)
      [] d.tag = "FixedSizeBinary" -> PhysicalFixedSizeBinary(d.size)
      [] d.tag = "FixedSizeList" -> PhysicalFixedSizeList(d.field, d.size)
      [] d.tag = "Union" -> PhysicalUnion(d.fields, d.ids, d.sparse)
      [] d.tag = "Extension" -> to_physical_type(ext_data_type(d.ext))

\* to_physical_type looking through one Extension only.
to_physical_type_one_level(d) ==
    CASE d.tag = "Null" -> Physical("Null")
      [] d.tag = "Boolean" -> Physical("Boolean")
      [] d.tag = "UInt8" -> Physical("UInt8")
      [] d.tag = "UInt16" -> Physical("UInt16")
      [] d.tag = "UInt32" -> Physical("UInt32")
      [] d.tag = "UInt64" -> Physical("UInt64")
      [] d.tag = "Int8" -> Physical("Int8")
      [] d.tag = "Int16" -> Physical("Int16")
      [] \/ d.tag = "Int32"
         \/ d.tag = "Date32"
         \/ d.tag = "Time32"
         \/ (d.tag = "Interval" /\ d.unit = "YearMonth") -> Physical("Int32")
      [] \/ d.tag = "Int64"
         \/ d.tag = "Date64"
         \/ d.tag = "Time64"
         \/ d.tag = "Timestamp"
         \/ d.tag = "Duration" -> Physical("Int64")
      [] d.tag = "Decimal" -> Physical("Int128")
      [] d.tag = "Interval" /\ d.unit = "DayTime" -> Physical("DaysMs")
      [] d.tag = "Float16" -> Physical("Float16")
      [] d.tag = "Float32" -> Physical("Float32")
      [] d.tag = "Float64" -> Physical("Float64")
      [] d.tag = "Utf8" -> Physical("Utf8")
      [] d.tag = "LargeUtf8" -> Physical("LargeUtf8")
      [] d.tag = "Binary" -> Physical("Binary")
      [] d.tag = "LargeBinary" -> Physical("LargeBinary")
      [] d.tag = "List" -> PhysicalList(d.field)
      [] d.tag = "LargeList" -> PhysicalLargeList(d.field)
      [] d.tag = "Struct" -> PhysicalStruct(d.fields)
      [] d.tag = "Dictionary" -> PhysicalDictionary(d.key, d.value)
      [] d.tag = "FixedSizeBinary" -> PhysicalFixedSizeBinary(d.size)
      [] d.tag = "FixedSizeList" -> PhysicalFixedSizeList(d.field, d.size)
      [] d.tag = "Union" -> PhysicalUnion(d.fields, d.ids, d.sparse)
      [] d.tag = "Extension" ->
            IF ext_data_type(d.ext).tag = "Extension" THEN Physical("Null")
            ELSE to_physical_type(ext_data_type(d.ext))

\* to_physical_type as the source defines it.
to_physical_type(d) ==
    CASE d.tag = "Null" -> Physical("Null")
      [] d.tag = "Boolean" -> Physical("Boolean")
      [] d.tag = "UInt8" -> Physical("UInt8")
      [] d.tag = "UInt16" -> Physical("UInt16")
      [] d.tag = "UInt32" -> Physical("UInt32")
      [] d.tag = "UInt64" -> Physical("UInt64")
      [] d.tag = "Int8" -> Physical("Int8")
      [] d.tag = "Int16" -> Physical("Int16")
      [] \/ d.tag = "Int32"
         \/ d.tag = "Date32"
         \/ d.tag = "Time32"
         \/ (d.tag = "Interval" /\ d.unit = "YearMonth") -> Physical("Int32")
      [] \/ d.tag = "Int64"
         \/ d.tag = "Date64"
         \/ d.tag = "Time64"
         \/ d.tag = "Timestamp"
         \/ d.tag = "Duration" -> Physical("Int64")
      [] d.tag = "Decimal" -> Physical("Int128")
      [] d.tag = "Interval" /\ d.unit = "DayTime" -> Physical("DaysMs")
      [] d.tag = "Float16" -> Physical("Float16")
      [] d.tag = "Float32" -> Physical("Float32")
      [] d.tag = "Float64" -> Physical("Float64")
      [] d.tag = "Utf8" -> Physical("Utf8")
      [] d.tag = "LargeUtf8" -> Physical("LargeUtf8")
      [] d.tag = "Binary" -> Physical("Binary")
      [] d.tag = "LargeBinary" -> Physical("LargeBinary")
      [] d.tag = "List" -> PhysicalList(d.field)
      [] d.tag = "LargeList" -> PhysicalLargeList(d.field)
      [] d.tag = "Struct" -> PhysicalStruct(d.fields)
      [] d.tag = "Dictionary" -> PhysicalDictionary(d.key, d.value)
      [] d.tag = "FixedSizeBinary" -> PhysicalFixedSizeBinary(d.size)
      [] d.tag = "FixedSizeList" -> PhysicalFixedSizeList(d.field, d.size)
      [] d.tag = "Union" -> PhysicalUnion(d.fields, d.ids, d.sparse)
      [] d.tag = "Extension" -> to_physical_type(ext_data_type(d.ext))

(***************************************************************************)
(* DataType::is_phsical_type                                               *)
(***************************************************************************)
\* is_phsical_type accepting Interval of either unit.
is_phsical_type_any_interval(d) ==
    \/ d.tag \in {"Null", "Boolean", "Int8", "Int16", "Int32", "Int64",
                  "UInt8", "UInt16", "UInt32", "UInt64",
                  "Float16", "Float32", "Float64",
                  "Binary", "LargeBinary", "FixedSizeBinary", "Utf8", "LargeUtf8",
                  "List", "LargeList", "FixedSizeList", "Struct", "Union",
                  "Dictionary"}
    \/ d.tag = "Interval"
    \/ d.tag = "Decimal"

\* is_phsical_type as the source defines it.
is_phsical_type(d) ==
    \/ d.tag \in {"Null", "Boolean", "Int8", "Int16", "Int32", "Int64",
                  "UInt8", "UInt16", "UInt32", "UInt64",
                  "Float16", "Float32", "Float64",
                  "Binary", "LargeBinary", "FixedSizeBinary", "Utf8", "LargeUtf8",
                  "List", "LargeList", "FixedSizeList", "Struct", "Union",
                  "Dictionary"}
    \/ (d.tag = "Interval" /\ d.unit = "DayTime")
    \/ d.tag = "Decimal"

(***************************************************************************)
(* The input domain: every scalar variant with every unit, and nested      *)
(* values built from them.                                                 *)
(***************************************************************************)
Sizes == 1..MaxSize

TimeZones == {None, Some("UTC"), Some("+07:30")}

Metadata == {{}, {<<"k", "v">>}}

Kinds == {"kind1", "kind2"}

Scalars ==
    {Plain(t) : t \in PayloadFree}
    \cup {Timestamp(u, tz) : u \in TimeUnit, tz \in TimeZones}
    \cup {Time32(u) : u \in TimeUnit}
    \cup {Time64(u) : u \in TimeUnit}
    \cup {Duration(u) : u \in TimeUnit}
    \cup {Interval(u) : u \in IntervalUnit}
    \cup {FixedSizeBinary(n) : n \in Sizes}
    \cup {Decimal(p, s) : p \in 1..MaxPrecision, s \in 0..MaxScale}

\* Child fields of the list variants: names, nullability and metadata vary.
ListFields ==
    {Field(n, Plain(t), nl, {}) : n \in {"a", "b"}, t \in {"Int32", "Date32"}, nl \in BOOLEAN}
    \cup {Field("a", Plain(t), TRUE, {<<"k", "v">>}) : t \in {"Int32", "Date32"}}

Lists ==
    {List(f) : f \in ListFields}
    \cup {LargeList(f) : f \in ListFields}
    \cup {FixedSizeList(f, n) : f \in ListFields, n \in Sizes}

StructFields ==
    {Field("a", Plain("Int32"), FALSE, {}), Field("b", Plain("Int32"), FALSE, {}),
     Field("a", Plain("Int32"), TRUE, {}), Field("a", Plain("Utf8"), TRUE, {})}

RECURSIVE SeqsUpTo(_, _)

SeqsUpTo(S, n) ==
    IF n = 0 THEN {<< >>}
    ELSE LET shorter == SeqsUpTo(S, n - 1)
         IN  shorter \cup {Append(q, x) : q \in {r \in shorter : Len(r) = n - 1}, x \in S}

Structs == {Struct(fs) : fs \in SeqsUpTo(StructFields, MaxStructLen)}

UnionFields ==
    {<<Field(n, Plain("Int32"), TRUE, md)>> : n \in {"a", "b"}, md \in Metadata}
    \cup {<<Field("a", Plain("Int32"), TRUE, {}), Field("b", Plain("Utf8"), TRUE, {})>>}

Unions ==
    {Union(fs, ids, sp) : fs \in UnionFields, ids \in {None, Some(<<5, 7>>)}, sp \in BOOLEAN}

Dictionaries ==
    {Dictionary(Plain(k), v) :
        k \in {"Int8", "Int32"},
        v \in {Plain("Utf8"), Plain("Date32"),
               List(Field("a", Plain("Int32"), TRUE, {})),
               List(Field("b", Plain("Int32"), TRUE, {}))}}

RECURSIVE Extensions(_)

\* Extension values whose chain of underlying Extension values has length <= n.
Extensions(n) ==
    IF n = 0
    THEN {Plain("Date32"), Interval("DayTime"), List(Field("a", Plain("Int32"), TRUE, {}))}
    ELSE LET inner == Extensions(n - 1)
         IN  inner \cup {Extension(ExtensionObject(k, t)) : k \in Kinds, t \in inner}

Wrap(x) ==
    {List(Field("a", x, TRUE, {})), List(Field("b", x, TRUE, {})),
     List(Field("a", x, FALSE, {})), Struct(<<Field("a", x, TRUE, {})>>)}

RECURSIVE Spine(_)

\* Values nested to depth <= n through List and Struct.
Spine(n) ==
    IF n = 0
    THEN {Plain("Int32"),
          Union(<<Field("a", Plain("Int32"), TRUE, {})>>, None, TRUE),
          Union(<<Field("b", Plain("Int32"), TRUE, {})>>, None, TRUE)}
    ELSE LET inner == Spine(n - 1)
         IN  inner \cup UNION {Wrap(x) : x \in inner}

DataTypes ==
    Scalars \cup Lists \cup Structs \cup Unions \cup Dictionaries
    \cup Extensions(MaxChain) \cup Spine(MaxDepth)

(***************************************************************************)
(* The state machine: a pair of values, the last function called on it and *)
(* what it returned.                                                       *)
(***************************************************************************)
Init ==
    /\ self \in DataTypes
    /\ other \in DataTypes
    /\ call = "none"
    /\ ret = "none"

\* self == other
CallEq ==
    /\ call' = "eq"
    /\ ret' = eq(self, other)
    /\ UNCHANGED <<self, other>>

\* self.equals_datatype(other)
CallEqualsDatatype ==
    /\ call' = "equals_datatype"
    /\ ret' = equals_datatype(self, other)
    /\ UNCHANGED <<self, other>>

\* self.to_physical_type()
CallToPhysicalType ==
    /\ call' = "to_physical_type"
    /\ ret' = to_physical_type(self)
    /\ UNCHANGED <<self, other>>

\* self.is_phsical_type()
CallIsPhsicalType ==
    /\ call' = "is_phsical_type"
    /\ ret' = is_phsical_type(self)
    /\ UNCHANGED <<self, other>>

Next ==
    \/ CallEq
    \/ CallEqualsDatatype
    \/ CallToPhysicalType
    \/ CallIsPhsicalType

Spec == Init /\ [][Next]_vars

(***************************************************************************)
(* Helpers of the properties.                                              *)
(***************************************************************************)
ListKinds == {"List", "LargeList", "FixedSizeList"}

\* The physical variants that carry the name of the logical variant.
SameNamed ==
    {"Null", "Boolean", "Int8", "Int16", "Int32", "Int64",
     "UInt8", "UInt16", "UInt32", "UInt64", "Float16", "Float32", "Float64",
     "Utf8", "LargeUtf8", "Binary", "LargeBinary"}

\* The mapping table of the physical classifier, for a non-Extension value.
MappingTable(d) ==
    IF d.tag \in SameNamed THEN [enum |-> "PhysicalDataType", tag |-> d.tag]
    ELSE IF d.tag \in {"Date32", "Time32"} \/ d = Interval("YearMonth")
         THEN [enum |-> "PhysicalDataType", tag |-> "Int32"]
    ELSE IF d.tag \in {"Date64", "Time64", "Timestamp", "Duration"}
         THEN [enum |-> "PhysicalDataType", tag |-> "Int64"]
    ELSE IF d.tag = "Decimal" THEN [enum |-> "PhysicalDataType", tag |-> "Int128"]
    ELSE IF d = Interval("DayTime") THEN [enum |-> "PhysicalDataType", tag |-> "DaysMs"]
    ELSE [enum |-> "PhysicalDataType"] @@ d

RECURSIVE Innermost(_)

\* The underlying type at the end of a chain of Extension values.
Innermost(d) == IF d.tag = "Extension" THEN Innermost(d.ext.data_type) ELSE d

\* The child field of a list value under another name and other metadata.
Relabel(d, n, md) == [d EXCEPT !.field = [@ EXCEPT !.name = n, !.metadata = md]]

\* The child fields of a struct value under another name and other metadata.
RelabelAll(d, n, md) ==
    [d EXCEPT !.fields = [i \in 1..Len(@) |-> [@[i] EXCEPT !.name = n, !.metadata = md]]]

RECURSIVE Shape(_)

\* A value with the name and the metadata of every nested field erased.
ShapeField(f) == [f EXCEPT !.name = "", !.metadata = {}, !.data_type = Shape(@)]

Shape(d) ==
    CASE d.tag \in ListKinds -> [d EXCEPT !.field = ShapeField(@)]
      [] d.tag \in {"Struct", "Union"} ->
            [d EXCEPT !.fields = [i \in 1..Len(@) |-> ShapeField(@[i])]]
      [] d.tag = "Dictionary" -> [d EXCEPT !.key = Shape(@), !.value = Shape(@)]
      [] OTHER -> d

\* The values of the domain that differ from d in nested names and metadata only.
Renamings == [d \in DataTypes |-> {e \in DataTypes : Shape(e) = Shape(d)}]

SameNested(a, b) ==
    \/ a.tag = b.tag /\ a.tag \in ListKinds
    \/ a.tag = "Struct" /\ b.tag = "Struct"

(***************************************************************************)
(* Properties.                                                             *)
(***************************************************************************)

\* C1: to_physical_type maps every non-Extension value as the mapping table
\* says: same-named variants to themselves, Date32/Time32/Interval(YearMonth)
\* to Int32, Date64/Time64/Timestamp/Duration to Int64, Decimal to Int128,
\* Interval(DayTime) to DaysMs, and nested variants and FixedSizeBinary to the
\* same-named variant with exactly the same payload.
C1_MappingTable ==
    (call = "to_physical_type" /\ self.tag # "Extension") => ret = MappingTable(self)

C1_Witness ==
    /\ call = "to_physical_type"
    /\ self = List(Field("a", Plain("Date32"), TRUE, {}))
    /\ ret.tag = "List"
    /\ ret.field.data_type = Plain("Date32")

\* C2: to_physical_type returns a physical type for every value, and for an
\* Extension value the physical type of the type its object reports, hence of
\* the innermost non-Extension type of a chain.
C2_Total ==
    call = "to_physical_type" =>
        /\ ret.enum = "PhysicalDataType"
        /\ ret.tag \in PhysicalPlain \cup PhysicalNested
        /\ self.tag = "Extension" =>
              /\ ret = to_physical_type(ext_data_type(self.ext))
              /\ ret = MappingTable(Innermost(self))

C2_Witness ==
    /\ call = "to_physical_type"
    /\ self = Extension(ExtensionObject("kind1",
                 Extension(ExtensionObject("kind2", Interval("DayTime")))))
    /\ ret = Physical("DaysMs")

\* C3: is_phsical_type is true exactly for the listed variants, with
\* Interval(DayTime) and Decimal among them, and false for Timestamp, Date32,
\* Date64, Time32, Time64, Duration, Interval(YearMonth) and every Extension.
C3_Membership ==
    call = "is_phsical_type" =>
        /\ ret = (\/ self.tag \in SameNamed \cup ListKinds
                         \cup {"FixedSizeBinary", "Struct", "Union", "Dictionary", "Decimal"}
                  \/ self = Interval("DayTime"))
        /\ ret = ~(\/ self.tag \in {"Timestamp", "Date32", "Date64", "Time32", "Time64",
                                    "Duration", "Extension"}
                   \/ self = Interval("YearMonth"))

C3_Witness ==
    /\ call = "is_phsical_type"
    /\ self = Interval("YearMonth")
    /\ ret = FALSE

\* C4: exact equality holds iff the two values are the same variant with
\* equal payload components (child fields by name, type, nullability and
\* metadata); values of distinct variants are never equal, an Extension value
\* and its underlying type included.
C4_ExactEquality ==
    call = "eq" =>
        /\ ret = (self = other)
        /\ self.tag # other.tag => ret = FALSE

C4_Witness ==
    /\ call = "eq"
    /\ self.tag = "Extension"
    /\ other = self.ext.data_type
    /\ ret = FALSE

\* C5: two list values of the same kind are structurally equal iff the child
\* fields agree on nullability, the child types are structurally equal and,
\* for FixedSizeList, the element counts agree; the child field's name and
\* metadata do not matter; list values of different kinds are never equal.
C5_Lists ==
    (call = "equals_datatype" /\ self.tag \in ListKinds /\ other.tag \in ListKinds) =>
        /\ ret = (/\ self.tag = other.tag
                  /\ self.field.nullable = other.field.nullable
                  /\ equals_datatype(self.field.data_type, other.field.data_type)
                  /\ self.tag = "FixedSizeList" => self.size = other.size)
        /\ \A n \in {"a", "z"}, md \in Metadata :
              equals_datatype(Relabel(self, n, md), other) = ret

C5_Witness ==
    /\ call = "equals_datatype"
    /\ self = List(Field("a", Plain("Int32"), TRUE, {}))
    /\ other = List(Field("b", Plain("Int32"), TRUE, {}))
    /\ ret = TRUE

\* C6: two Struct values are structurally equal iff they have the same
\* number of fields and the fields at each position agree on nullability and
\* have structurally equal types; names and metadata do not matter, and the
\* comparison is positional.
C6_Structs ==
    (call = "equals_datatype" /\ self.tag = "Struct" /\ other.tag = "Struct") =>
        /\ ret = (/\ Len(self.fields) = Len(other.fields)
                  /\ \A i \in 1..Len(self.fields) :
                        /\ self.fields[i].nullable = other.fields[i].nullable
                        /\ equals_datatype(self.fields[i].data_type,
                                           other.fields[i].data_type))
        /\ \A n \in {"a", "z"}, md \in Metadata :
              equals_datatype(RelabelAll(self, n, md), other) = ret

C6_Witness ==
    /\ call = "equals_datatype"
    /\ self = Struct(<<Field("a", Plain("Int32"), FALSE, {}),
                       Field("a", Plain("Utf8"), TRUE, {})>>)
    /\ other = Struct(<<Field("a", Plain("Utf8"), TRUE, {}),
                        Field("a", Plain("Int32"), FALSE, {})>>)
    /\ ret = FALSE

C8_ReflexiveSymmetric ==
    call = "equals_datatype" =>
        /\ ret = equals_datatype(other, self)
        /\ self = other => ret = TRUE

C8_Witness ==
    /\ call = "equals_datatype"
    /\ self.tag = "Struct"
    /\ other.tag = "Struct"
    /\ Len(self.fields) < Len(other.fields)
    /\ ret = FALSE

\* C9: equals_datatype ignores nested field names and metadata: replacing
\* self by any value that differs from it only in the names or metadata of
\* nested fields, at any depth and under any nested variant, leaves the
\* result unchanged.
C9_IgnoresNamesAndMetadata ==
    call = "equals_datatype" =>
        \A renamed \in Renamings[self] : equals_datatype(renamed, other) = ret

\* C10: exactly equal values are structurally equal.
C10_ExactImpliesStructural ==
    (call = "equals_datatype" /\ eq(self, other)) => ret = TRUE

C10_Witness ==
    /\ call = "equals_datatype"
    /\ self.tag = "List"
    /\ self.field.data_type.tag = "Struct"
    /\ eq(self, other)
    /\ ret = TRUE

====
